---- MODULE Spec2Model ----
(***************************************************************************)
(* The production ledger of src/App.tsx: the two in-memory collections     *)
(* (entries, payments), their persisted copies in localStorage, the        *)
(* backup export / import, the weight and amount calculator and the        *)
(* period filter.                                                          *)
(*                                                                         *)
(* Representation.                                                         *)
(*  - A JavaScript number is a pair <<tag, n>>: <<"num", n>> is the finite *)
(*    number n, <<"negzero", 0>> is -0, <<"inf", 0>> is Infinity and       *)
(*    <<"null", 0>> is null.  Weights are counted in thousandths of a kg   *)
(*    (the 3 decimals of toFixed(3)), amounts in hundredths of a currency  *)
(*    unit (the 2 decimals of toFixed(2)); form fields are the integers    *)
(*    typed.                                                               *)
(*  - A JSON number literal is a pair too: <<"num", n>> is the text of n,  *)
(*    <<"negzero", 0>> the text -0, <<"big", 0>> a literal beyond the      *)
(*    double range such as 1e999, <<"null", 0>> the text null.             *)
(*  - A string is a sequence of characters; an id is a natural number that *)
(*    stands for one uuid string.                                          *)
(*  - A text (a localStorage value, a file's content) is <<"absent", _>>   *)
(*    (no value), <<"garbage", _>> (not JSON) or <<"json", value>>; a JSON *)
(*    value is <<"arr", sequence>>, <<"obj", record>> or <<"nil", _>>.     *)
(***************************************************************************)
EXTENDS Integers, Sequences, FiniteSets, TLC

\* Cap on the number of uuidv4() calls of one behaviour.
MaxIds == 2

----------------------------------------------------------------------------
\* JavaScript numbers and JSON number literals

Num(n) == <<"num", n>>
NegZero == <<"negzero", 0>>
Infinity == <<"inf", 0>>
Null == <<"null", 0>>
BigLit == <<"big", 0>>

\* The mathematical value of a finite number (-0 is 0).
Val(v) == IF v[1] = "num" THEN v[2] ELSE 0

Abs(n) == IF n < 0 THEN -n ELSE n

\* JSON.stringify of a number: -0 is written 0, a non-finite number null.
StringifyNumber(v) ==
  CASE v[1] = "num" -> v
    [] v[1] = "negzero" -> Num(0)
    [] v[1] = "inf" -> Null
    [] OTHER -> Null

\* JSON.parse of a number literal: -0 reads as -0, 1e999 as Infinity.
ParseNumber(t) ==
  CASE t[1] = "num" -> t
    [] t[1] = "negzero" -> NegZero
    [] t[1] = "big" -> Infinity
    [] OTHER -> Null

\* Number(x.toFixed(d)) of the rational x = n / den counted in units of
\* 10^-d: toFixed strips the sign, rounds the magnitude to the nearest unit
\* (the larger one on a tie) and puts the sign back, so a negative x that
\* rounds to zero prints as "-0.00" and reads back as -0.  The arithmetic here
\* is exact; on a decimal tie toFixed decides on the binary value of x, which
\* may lie on either side of it.
NumberToFixed(n, den) ==
  LET m == (2 * Abs(n) + den) \div (2 * den)
  IN  IF n < 0 THEN (IF m = 0 THEN NegZero ELSE Num(-m)) ELSE Num(m)

----------------------------------------------------------------------------
\* Strings

Str2024_01_05 == <<"2", "0", "2", "4", "-", "0", "1", "-", "0", "5">>
Str2024_01_20 == <<"2", "0", "2", "4", "-", "0", "1", "-", "2", "0">>
Str2024_02_10 == <<"2", "0", "2", "4", "-", "0", "2", "-", "1", "0">>
StrAll == <<"a", "l", "l">>
Key2024_01 == <<"2", "0", "2", "4", "-", "0", "1">>
Key2024_02 == <<"2", "0", "2", "4", "-", "0", "2">>
Key2023_12 == <<"2", "0", "2", "3", "-", "1", "2">>

\* A prefix test that looks at the last character of the prefix only
EndsPrefix(s, p) == Len(p) <= Len(s) /\ (p = <<>> \/ s[Len(p)] = p[Len(p)])

\* String.prototype.startsWith
StartsWith(s, p) == Len(p) <= Len(s) /\ SubSeq(s, 1, Len(p)) = p

----------------------------------------------------------------------------
\* Weight / amount calculator

\* The formula with a residual of 3 grams per cone
calculateWeightResidual3(drum, open, close, cones) ==
  NumberToFixed(drum * (1250 - open) + close * 3 + (cones - drum) * 1250, 1)

\* calculateProductionWeight: part1 + part2 + part3, each a number of grams
\* divided by 1000, then Number(sum.toFixed(3)); the result is counted in
\* thousandths of a kilogram.
calculateProductionWeight(drum, open, close, cones) ==
  LET part1 == drum * (1250 - open)
      part2 == close * 30
      part3 == (cones - drum) * 1250
  IN  NumberToFixed(part1 + part2 + part3, 1)

\* currentWeight: the weight of the form draft fd
currentWeight(fd) ==
  calculateProductionWeight(fd.runningDrum, fd.openStockGrams,
                            fd.closingStockGrams, fd.productionCones)

\* The amount cut off after 2 decimals instead of rounded
currentAmountTruncated(fd) ==
  LET n == Val(currentWeight(fd)) * fd.ratePerKg
  IN  IF n < 0 THEN Num(-(Abs(n) \div 10)) ELSE Num(n \div 10)

\* currentAmount: Number((currentWeight * ratePerKg).toFixed(2)), counted in
\* hundredths: thousandths of a kg times the rate is 1/1000 of a unit, that
\* is 1/10 of a hundredth.
currentAmount(fd) ==
  NumberToFixed(Val(currentWeight(fd)) * fd.ratePerKg, 10)

----------------------------------------------------------------------------
\* Records and their JSON encoding

\* The entry handleSubmit builds from the form draft fd and a fresh id.
NewEntry(fd, id) ==
  [id |-> id,
   date |-> fd.date,
   runningDrum |-> Num(fd.runningDrum),
   openStockGrams |-> Num(fd.openStockGrams),
   productionCones |-> Num(fd.productionCones),
   closingStockGrams |-> Num(fd.closingStockGrams),
   ratePerKg |-> Num(fd.ratePerKg),
   totalAmount |-> currentAmount(fd),
   productionWeight |-> currentWeight(fd),
   consumptionKg |-> Num(fd.openStockGrams - fd.closingStockGrams)]

\* The payment handlePaymentSubmit builds from the payment form pf.
NewPayment(pf, id) ==
  [id |-> id, date |-> pf.date, amount |-> Num(pf.amount), note |-> pf.note]

IsEntry(r) == "productionWeight" \in DOMAIN r

\* JSON.stringify / JSON.parse of one record: strings and ids are kept, every
\* number goes through the number conversion.
StringifyRecord(r) ==
  IF IsEntry(r)
  THEN [id |-> r.id, date |-> r.date,
        runningDrum |-> StringifyNumber(r.runningDrum),
        openStockGrams |-> StringifyNumber(r.openStockGrams),
        productionCones |-> StringifyNumber(r.productionCones),
        closingStockGrams |-> StringifyNumber(r.closingStockGrams),
        ratePerKg |-> StringifyNumber(r.ratePerKg),
        totalAmount |-> StringifyNumber(r.totalAmount),
        productionWeight |-> StringifyNumber(r.productionWeight),
        consumptionKg |-> StringifyNumber(r.consumptionKg)]
  ELSE [id |-> r.id, date |-> r.date,
        amount |-> StringifyNumber(r.amount), note |-> r.note]

ParseRecord(t) ==
  IF IsEntry(t)
  THEN [id |-> t.id, date |-> t.date,
        runningDrum |-> ParseNumber(t.runningDrum),
        openStockGrams |-> ParseNumber(t.openStockGrams),
        productionCones |-> ParseNumber(t.productionCones),
        closingStockGrams |-> ParseNumber(t.closingStockGrams),
        ratePerKg |-> ParseNumber(t.ratePerKg),
        totalAmount |-> ParseNumber(t.totalAmount),
        productionWeight |-> ParseNumber(t.productionWeight),
        consumptionKg |-> ParseNumber(t.consumptionKg)]
  ELSE [id |-> t.id, date |-> t.date,
        amount |-> ParseNumber(t.amount), note |-> t.note]

\* JSON.stringify(array) as a text, and JSON.parse of an array value
StringifyArray(s) == <<"arr", [i \in 1..Len(s) |-> StringifyRecord(s[i])]>>
ParseArray(a) == [i \in 1..Len(a[2]) |-> ParseRecord(a[2][i])]

Absent == <<"absent", <<>>>>
Garbage == <<"garbage", <<>>>>
JsonNull == <<"json", <<"nil", <<>>>>>>
JsonText(v) == <<"json", v>>

----------------------------------------------------------------------------
\* Inputs

\* Form drafts the user submits (handleInputChange stores Number(value) of
\* each number field): the example of the specification, a draft whose
\* weight is -0.001 kg, and a draft whose amount needs rounding.
EntryInputs ==
  { [date |-> Str2024_01_05, runningDrum |-> 5, openStockGrams |-> 200,
     productionCones |-> 10, closingStockGrams |-> 100, ratePerKg |-> 150],
    [date |-> Str2024_02_10, runningDrum |-> 1, openStockGrams |-> 1251,
     productionCones |-> 1, closingStockGrams |-> 0, ratePerKg |-> 1],
    [date |-> Str2024_01_20, runningDrum |-> 1, openStockGrams |-> 3,
     productionCones |-> 1, closingStockGrams |-> 0, ratePerKg |-> 1] }

\* Payment forms the user submits; amounts in hundredths.
PaymentInputs ==
  { [date |-> Str2024_01_05, amount |-> 2000, note |-> <<>>],
    [date |-> Str2024_02_10, amount |-> 1, note |-> <<"o", "\"", "k", ",">>],
    [date |-> Str2024_01_20, amount |-> 0, note |-> <<>>],
    [date |-> Str2024_02_10, amount |-> -500, note |-> <<>>] }

\* Records of backup documents that this program did not write.  ForeignA and
\* ForeignB share an id, and ForeignA's totalAmount is not its weight times its
\* rate; ForeignP's amount is a literal beyond the double range.
ForeignA ==
  [id |-> 101, date |-> Str2024_01_05,
   runningDrum |-> Num(2), openStockGrams |-> Num(0),
   productionCones |-> Num(2), closingStockGrams |-> Num(0),
   ratePerKg |-> Num(10), totalAmount |-> Num(7),
   productionWeight |-> Num(2500), consumptionKg |-> Num(0)]
ForeignB ==
  [id |-> 101, date |-> Str2024_02_10,
   runningDrum |-> Num(0), openStockGrams |-> Num(0),
   productionCones |-> Num(1), closingStockGrams |-> Num(0),
   ratePerKg |-> Num(2), totalAmount |-> Num(250),
   productionWeight |-> Num(1250), consumptionKg |-> Num(0)]
ForeignP ==
  [id |-> 102, date |-> Str2024_01_20, amount |-> BigLit, note |-> <<>>]

\* A structured backup document: an object with the two containers.
BackupObject(ea, pa) ==
  <<"obj", [entries |-> ea, payments |-> pa, version |-> <<"1", ".", "0">>]>>

\* Files the user may pick in the import dialog, besides the last backup the
\* program itself downloaded.
ForeignFiles ==
  << [ext |-> "json", content |-> Garbage],
     [ext |-> "json", content |-> JsonNull],
     [ext |-> "json",
      content |-> JsonText(<<"obj", [payments |-> <<"arr", <<ForeignP>>>>]>>)],
     [ext |-> "json",
      content |-> JsonText(<<"obj", [entries |-> <<"arr", <<ForeignB>>>>]>>)],
     [ext |-> "json",
      content |-> JsonText(BackupObject(<<"arr", <<ForeignA, ForeignB>>>>,
                                       <<"arr", <<ForeignP>>>>))],
     [ext |-> "json", content |-> JsonText(BackupObject(<<"arr", <<>>>>, <<"arr", <<>>>>))],
     [ext |-> "csv", content |-> Garbage] >>

\* What localStorage may hold under the two keys when the program starts.
InitialStores ==
  << [production_entries |-> Absent, production_payments |-> Absent],
     [production_entries |-> Garbage, production_payments |-> Absent],
     [production_entries |-> Absent, production_payments |-> Garbage],
     [production_entries |-> JsonText(<<"arr", <<ForeignB>>>>),
      production_payments |-> JsonText(<<"arr", <<>>>>)] >>

\* Ids deleteEntry / deletePayment may be called with.
DeleteIds == (1..MaxIds) \cup {101, 102}

----------------------------------------------------------------------------
\* State

VARIABLES
  phase,      \* "boot": not mounted yet; "running"; "crashed": render threw
  entries,    \* useState entries
  payments,   \* useState payments
  store,      \* localStorage: production_entries, production_payments
  effects,    \* the persistence effects that are due, in declaration order
  file,       \* the backup exportFullBackup just downloaded (see NoFile)
  nextId,     \* number of uuidv4() calls so far
  picked,     \* the file of the import input while the FileReader reads it
  alertMsg,   \* what the last handler showed with alert()
  restore,    \* the restore being persisted: the collections before and after it
  isAnalyzing, \* useState isAnalyzing
  aiInsight,  \* useState aiInsight
  request     \* the generateContent call in flight and the data it was given

vars == <<phase, entries, payments, store, effects, file, picked, nextId, alertMsg, restore,
          isAnalyzing, aiInsight, request>>

\* The state of the insight request
insightVars == <<isAnalyzing, aiInsight, request>>
NoInsight == ""
NoRequest == [st |-> "none", payload |-> <<"arr", <<>>>>]

NoAlert == ""
ErrorParsing == "Error parsing file."
CsvNotice == "CSV Import optimized for Excel structure. Large files may take a moment."
NoRestore == <<>>
\* The import dialog offers the foreign files and the backup of the current
\* ledger; once a handler changes the ledger, the downloaded backup is an old
\* file like any other and is not offered any more.
NoFile == [ext |-> "json", content |-> Absent]
NoPick == [ext |-> "", content |-> Absent]

\* The state before App mounts, with saved in localStorage
InitWith(saved) ==
  /\ phase = "boot"
  /\ entries = <<>>
  /\ payments = <<>>
  /\ store = saved
  /\ effects = <<>>
  /\ file = NoFile
  /\ picked = NoPick
  /\ nextId = 0
  /\ alertMsg = NoAlert
  /\ restore = NoRestore
  /\ isAnalyzing = FALSE
  /\ aiInsight = NoInsight
  /\ request = NoRequest

Init == \E i \in 1..Len(InitialStores) : InitWith(InitialStores[i])

----------------------------------------------------------------------------
\* Start-up

\* The useState initializer of one collection: saved ? JSON.parse(saved) : [].
\* The result is <<"ok", array>>, or <<"throw", _>> when JSON.parse throws or
\* yields null, which the first use of the collection (entries.length,
\* payments.forEach) throws on.
LoadKey(saved) ==
  CASE saved[1] = "absent" -> <<"ok", <<>>>>
    [] saved[1] = "garbage" -> <<"throw", <<>>>>
    [] saved[2][1] = "arr" -> <<"ok", ParseArray(saved[2])>>
    [] OTHER -> <<"throw", <<>>>>

AllEffects == <<"production_entries", "production_payments">>

\* Mounting App: both initializers run, then the first render; an exception
\* unmounts the tree.  After the first render both persistence effects are due.
Load ==
  /\ phase = "boot"
  /\ LET e == LoadKey(store.production_entries)
         p == LoadKey(store.production_payments)
     IN  IF e[1] = "ok" /\ p[1] = "ok"
         THEN /\ phase' = "running"
              /\ entries' = e[2]
              /\ payments' = p[2]
              /\ effects' = AllEffects
         ELSE /\ phase' = "crashed"
              /\ entries' = <<>>
              /\ payments' = <<>>
              /\ effects' = <<>>
  /\ UNCHANGED <<store, file, picked, nextId, alertMsg, restore>>
  /\ UNCHANGED insightVars

\* An effect that writes the entries under either key
EffectTextEntries(k) == JsonText(StringifyArray(entries))

\* The text the effect of key k writes: JSON.stringify of its collection.
EffectText(k) ==
  JsonText(StringifyArray(IF k = "production_entries" THEN entries ELSE payments))

\* One persistence effect runs: localStorage.setItem(key, JSON.stringify(...)).
RunEffect ==
  /\ phase = "running"
  /\ effects # <<>>
  /\ store' = [store EXCEPT ![Head(effects)] = EffectText(Head(effects))]
  /\ effects' = Tail(effects)
  /\ restore' = IF Tail(effects) = <<>> THEN NoRestore ELSE restore
  /\ UNCHANGED <<phase, entries, payments, file, picked, nextId, alertMsg>>
  /\ UNCHANGED insightVars

\* The process stops (at any point, also between two effects) and the page is
\* opened again: component state is lost, localStorage and downloads are kept.
Reload ==
  /\ phase # "boot"
  /\ phase' = "boot"
  /\ entries' = <<>>
  /\ payments' = <<>>
  /\ effects' = <<>>
  /\ alertMsg' = NoAlert
  /\ picked' = NoPick
  /\ UNCHANGED <<store, file, nextId, restore>>
  /\ isAnalyzing' = FALSE
  /\ aiInsight' = NoInsight
  /\ request' = NoRequest

\* A handler runs only when the effects of the previous one have run and no
\* file is being read.
Idle == phase = "running" /\ effects = <<>> /\ picked = NoPick

----------------------------------------------------------------------------
\* Ledger operations

\* An id generator that returns one id again and again
uuidv4Repeat(n) == 1

\* uuidv4(): the id that the call after n earlier calls returns, different
\* from the ids of all earlier calls
uuidv4(n) == n + 1

\* A setter that puts the new record behind the others
AppendLast(r, prev) == prev \o <<r>>

\* prev => [r, ...prev]
Prepend(r, prev) == <<r>> \o prev

\* handleSubmit: prepend the entry built from the form draft.
HandleSubmit(fd) ==
  /\ Idle
  /\ nextId < MaxIds
  /\ nextId' = nextId + 1
  /\ entries' = Prepend(NewEntry(fd, uuidv4(nextId)), entries)
  /\ effects' = <<"production_entries">>
  /\ alertMsg' = NoAlert
  /\ restore' = NoRestore
  /\ file' = NoFile
  /\ UNCHANGED <<phase, payments, store, picked>>
  /\ UNCHANGED insightVars

\* The early return of handlePaymentSubmit: paymentForm.amount <= 0
AmountRejectedLt(pf) == pf.amount < 0
AmountRejected(pf) == pf.amount <= 0

\* handlePaymentSubmit: a non-positive amount returns at once.
HandlePaymentSubmit(pf) ==
  /\ Idle
  /\ alertMsg' = NoAlert
  /\ IF AmountRejected(pf)
     THEN UNCHANGED <<phase, entries, payments, store, effects, file, picked, nextId, restore>>
     ELSE /\ nextId < MaxIds
          /\ nextId' = nextId + 1
          /\ payments' = Prepend(NewPayment(pf, uuidv4(nextId)), payments)
          /\ effects' = <<"production_payments">>
          /\ restore' = NoRestore
          /\ file' = NoFile
          /\ UNCHANGED <<phase, entries, store, picked>>
  /\ UNCHANGED insightVars

\* A filter that drops only the first record with the id
RECURSIVE RemoveFirstId(_, _)
RemoveFirstId(s, id) ==
  IF s = <<>> THEN <<>>
  ELSE IF Head(s).id # id THEN <<Head(s)>> \o RemoveFirstId(Tail(s), id)
       ELSE Tail(s)

\* prev.filter(r => r.id !== id)
RECURSIVE RemoveId(_, _)
RemoveId(s, id) ==
  IF s = <<>> THEN <<>>
  ELSE IF Head(s).id # id THEN <<Head(s)>> \o RemoveId(Tail(s), id)
       ELSE RemoveId(Tail(s), id)

\* deleteEntry: confirm("Delete log?") && setEntries(filter)
DeleteEntry(id, ok) ==
  /\ Idle
  /\ alertMsg' = NoAlert
  /\ IF ok
     THEN /\ entries' = RemoveId(entries, id)
          /\ effects' = <<"production_entries">>
          /\ restore' = NoRestore
          /\ file' = NoFile
          /\ UNCHANGED <<phase, payments, store, picked, nextId>>
     ELSE UNCHANGED <<phase, entries, payments, store, effects, file, picked, nextId, restore>>
  /\ UNCHANGED insightVars

\* deletePayment: confirm("Delete payment?") && setPayments(filter)
DeletePayment(id, ok) ==
  /\ Idle
  /\ alertMsg' = NoAlert
  /\ IF ok
     THEN /\ payments' = RemoveId(payments, id)
          /\ effects' = <<"production_payments">>
          /\ restore' = NoRestore
          /\ file' = NoFile
          /\ UNCHANGED <<phase, entries, store, picked, nextId>>
     ELSE UNCHANGED <<phase, entries, payments, store, effects, file, picked, nextId, restore>>
  /\ UNCHANGED insightVars

----------------------------------------------------------------------------
\* Period filter

\* s.filter(r => r.date.startsWith(key))
RECURSIVE FilterByMonth(_, _)
FilterByMonth(s, key) ==
  IF s = <<>> THEN <<>>
  ELSE IF StartsWith(Head(s).date, key)
       THEN <<Head(s)>> \o FilterByMonth(Tail(s), key)
       ELSE FilterByMonth(Tail(s), key)

\* Values of selectedMonth: "all" and month keys, one of them of no record
PeriodKeys == {StrAll, Key2024_01, Key2024_02, Key2023_12}

\* filteredEntries / filteredPayments for the selected month key
Filtered(s, selectedMonth) ==
  IF selectedMonth = StrAll THEN s ELSE FilterByMonth(s, selectedMonth)

----------------------------------------------------------------------------
\* Summary figures (stats)

\* A JavaScript number as the IEEE 754 binary64 value the engine holds:
\* kind "zero", "fin", "inf" or "nan", sign s (1: negative), and for a finite
\* non-zero value the 53 significand bits m, most significant first, and the
\* exponent e of the last bit: the value is m * 2^e. The model's magnitudes
\* stay far from the subnormal and the overflow range.
SignificandBits == 53
Double(k, s, m, e) == [k |-> k, s |-> s, m |-> m, e |-> e]
Zero(s) == Double("zero", s, <<>>, 0)
Inf(s) == Double("inf", s, <<>>, 0)
NaN == Double("nan", 0, <<>>, 0)

Zeros(n) == [i \in 1..n |-> 0]

\* The binary digits of a natural number, without leading zeros
RECURSIVE NatBits(_)
NatBits(n) == IF n = 0 THEN <<>> ELSE NatBits(n \div 2) \o <<n % 2>>

\* The first k binary digits of the fraction r / den (r < den), and what is
\* left of the fraction after them, as a numerator over den
RECURSIVE FracBits(_, _, _)
FracBits(r, den, k) ==
  IF k = 0 THEN <<>>
  ELSE <<(2 * r) \div den>> \o FracBits((2 * r) % den, den, k - 1)

RECURSIVE FracRem(_, _, _)
FracRem(r, den, k) == IF k = 0 THEN r ELSE FracRem((2 * r) % den, den, k - 1)

\* The number of zero digits before the first one digit of r / den (0 < r < den)
RECURSIVE LeadingZeros(_, _)
LeadingZeros(r, den) ==
  IF 2 * r >= den THEN 0 ELSE 1 + LeadingZeros(2 * r, den)

RECURSIVE Pow2(_)
Pow2(n) == IF n = 0 THEN 1 ELSE 2 * Pow2(n - 1)

RECURSIVE StripZeros(_)
StripZeros(b) ==
  IF b = <<>> \/ Head(b) = 1 THEN b ELSE StripZeros(Tail(b))

\* a + b + carry of two digit sequences of one length; the result is one
\* digit longer
RECURSIVE AddBits(_, _, _)
AddBits(a, b, carry) ==
  IF a = <<>> THEN <<carry>>
  ELSE LET n == Len(a)
           t == a[n] + b[n] + carry
       IN  IF t >= 2
           THEN AddBits(SubSeq(a, 1, n - 1), SubSeq(b, 1, n - 1), 1) \o <<t - 2>>
           ELSE AddBits(SubSeq(a, 1, n - 1), SubSeq(b, 1, n - 1), 0) \o <<t>>

\* a - b - borrow of two digit sequences of one length, a >= b
RECURSIVE SubBits(_, _, _)
SubBits(a, b, borrow) ==
  IF a = <<>> THEN <<>>
  ELSE LET n == Len(a)
           t == a[n] - b[n] - borrow
       IN  IF t < 0
           THEN SubBits(SubSeq(a, 1, n - 1), SubSeq(b, 1, n - 1), 1) \o <<t + 2>>
           ELSE SubBits(SubSeq(a, 1, n - 1), SubSeq(b, 1, n - 1), 0) \o <<t>>

\* a < b for two digit sequences of one length
RECURSIVE LessBits(_, _)
LessBits(a, b) ==
  IF a = <<>> THEN FALSE
  ELSE IF Head(a) # Head(b) THEN Head(a) < Head(b)
       ELSE LessBits(Tail(a), Tail(b))

\* Round to nearest, ties to even: the digits b (first digit 1, at least 53
\* of them) of a value b * 2^e that continues below its last digit exactly
\* when more holds, as the binary64 value with sign s
RoundToDouble(s, b, e, more) ==
  LET n == Len(b)
      keep == SubSeq(b, 1, SignificandBits)
      rest == SubSeq(b, SignificandBits + 1, n)
      guard == rest # <<>> /\ rest[1] = 1
      sticky == more \/ \E i \in 2..Len(rest) : rest[i] = 1
      \* with no digit cut off, more can only mean less than half a unit
      up == guard /\ (sticky \/ keep[SignificandBits] = 1)
      inc == AddBits(keep, Zeros(SignificandBits), 1)
      e53 == e + (n - SignificandBits)
  IN  IF ~up THEN Double("fin", s, keep, e53)
      ELSE IF inc[1] = 1
           THEN Double("fin", s, SubSeq(inc, 1, SignificandBits), e53 + 1)
           ELSE Double("fin", s, Tail(inc), e53)

\* The exact digits b (any leading zeros) of the value b * 2^e, as binary64
Normalize(s, b, e) ==
  LET d == StripZeros(b)
      n == Len(d)
  IN  IF n = 0 THEN Zero(0)
      ELSE IF n < SignificandBits
           THEN Double("fin", s, d \o Zeros(SignificandBits - n), e - (SignificandBits - n))
           ELSE RoundToDouble(s, d, e, FALSE)

\* The binary64 value of the decimal literal n / den (n # 0), which is what
\* Number("...") , JSON.parse and Number(x.toFixed(k)) yield
DecimalToDouble(n, den) ==
  LET s == IF n < 0 THEN 1 ELSE 0
      a == Abs(n)
      ib == NatBits(a \div den)
      r == a % den
      \* one digit more than the significand holds: the guard digit
      k == SignificandBits + 1 - Len(ib)
      z == IF ib = <<>> /\ r > 0 THEN LeadingZeros(r, den) ELSE 0
      r0 == r * Pow2(z)
  IN  IF ib # <<>>
      THEN RoundToDouble(s, ib \o FracBits(r, den, k), -k, FracRem(r, den, k) # 0)
      ELSE RoundToDouble(s, FracBits(r0, den, SignificandBits + 1),
                         -(z + SignificandBits + 1),
                         FracRem(r0, den, SignificandBits + 1) # 0)

\* ToNumber of a stored field: v is a number of the model, in units of 1/den;
\* null counts as 0 in an addition
ToDouble(v, den) ==
  CASE v[1] = "num" -> IF v[2] = 0 THEN Zero(0) ELSE DecimalToDouble(v[2], den)
    [] v[1] = "negzero" -> Zero(1)
    [] v[1] = "inf" -> Inf(0)
    [] OTHER -> Zero(0)

Negate(x) == IF x.k = "nan" THEN x ELSE [x EXCEPT !.s = 1 - x.s]

\* x + y of two finite non-zero numbers: the exact sum, rounded once
AddFinite(x, y) ==
  LET e == IF x.e < y.e THEN x.e ELSE y.e
      bx == x.m \o Zeros(x.e - e)
      by == y.m \o Zeros(y.e - e)
      n == IF Len(bx) > Len(by) THEN Len(bx) ELSE Len(by)
      ax == Zeros(n - Len(bx)) \o bx
      ay == Zeros(n - Len(by)) \o by
  IN  IF x.s = y.s THEN Normalize(x.s, AddBits(ax, ay, 0), e)
      ELSE IF LessBits(ax, ay) THEN Normalize(y.s, SubBits(ay, ax, 0), e)
           ELSE Normalize(x.s, SubBits(ax, ay, 0), e)

\* The JavaScript x + y on numbers
NumberAdd(x, y) ==
  CASE x.k = "nan" \/ y.k = "nan" -> NaN
    [] x.k = "inf" /\ y.k = "inf" -> IF x.s = y.s THEN x ELSE NaN
    [] x.k = "inf" -> x
    [] y.k = "inf" -> y
    [] x.k = "zero" /\ y.k = "zero" -> Zero(IF x.s = 1 /\ y.s = 1 THEN 1 ELSE 0)
    [] x.k = "zero" -> y
    [] y.k = "zero" -> x
    [] OTHER -> AddFinite(x, y)

\* The JavaScript x - y and x < 0 on numbers
NumberSub(x, y) == NumberAdd(x, Negate(y))
IsNegative(x) == x.k \in {"fin", "inf"} /\ x.s = 1

\* s.reduce((acc, curr) => acc + curr.<field>, 0), s being the sequence of the
\* field's values in units of 1/den
RECURSIVE ReduceFrom(_, _, _)
ReduceFrom(acc, s, den) ==
  IF s = <<>> THEN acc
  ELSE ReduceFrom(NumberAdd(acc, ToDouble(Head(s), den)), Tail(s), den)

ReduceSum(s, den) == ReduceFrom(Zero(0), s, den)

\* Weights are in thousandths of a kilogram, money in hundredths
WeightDen == 1000
MoneyDen == 100

\* stats: the totals of the filtered entries fe and the filtered payments fp,
\* before they are formatted for display
Stats(fe, fp) ==
  LET totalWeight == ReduceSum([i \in 1..Len(fe) |-> fe[i].productionWeight], WeightDen)
      totalValue == ReduceSum([i \in 1..Len(fe) |-> fe[i].totalAmount], MoneyDen)
      totalPaid == ReduceSum([i \in 1..Len(fp) |-> fp[i].amount], MoneyDen)
  IN  [totalWeight |-> totalWeight,
       totalValue |-> totalValue,
       totalPaid |-> totalPaid,
       outstandingBalance |-> NumberSub(totalValue, totalPaid),
       isBalanceNegative |-> IsNegative(NumberSub(totalValue, totalPaid))]

----------------------------------------------------------------------------
\* Backup export and import

\* exportFullBackup: JSON.stringify({entries, payments, version, exportDate})
\* goes to a downloaded .json file (the export date is left out).
BackupText(es, ps) ==
  JsonText(BackupObject(StringifyArray(es), StringifyArray(ps)))

ExportFullBackup ==
  /\ Idle
  /\ file' = [ext |-> "json", content |-> BackupText(entries, payments)]
  /\ alertMsg' = NoAlert
  /\ UNCHANGED <<phase, entries, payments, store, effects, picked, nextId, restore>>
  /\ UNCHANGED insightVars

\* The outcome of the try block of reader.onload on a .json file:
\* "throw" when JSON.parse throws or backup is null (backup.entries throws),
\* "restore" when backup.entries && backup.payments, otherwise "skip".
ImportOutcome(content) ==
  CASE content[1] # "json" -> "throw"
    [] content[2][1] = "nil" -> "throw"
    [] content[2][1] = "obj" /\ "entries" \in DOMAIN content[2][2]
         /\ "payments" \in DOMAIN content[2][2] -> "restore"
    [] OTHER -> "skip"

\* handleImportFile: the user picked the file f; reader.readAsText(file)
\* starts the read and the handler returns.
HandleImportFile(f) ==
  /\ Idle
  /\ f.content # Absent
  /\ picked' = f
  /\ alertMsg' = NoAlert
  /\ UNCHANGED <<phase, entries, payments, store, effects, file, nextId, restore>>
  /\ UNCHANGED insightVars

\* reader.onload: the try block on the content read, with the answer ok to
\* confirm("Restore from Backup? ..."); at the end the file input is cleared.
ReaderOnload(ok) ==
  /\ phase = "running"
  /\ picked # NoPick
  /\ picked' = NoPick
  /\ IF picked.ext = "json"
     THEN LET out == ImportOutcome(picked.content)
          IN  /\ alertMsg' = IF out = "throw" THEN ErrorParsing ELSE NoAlert
              /\ IF out = "restore" /\ ok
                 THEN LET backup == picked.content[2][2]
                          es == ParseArray(backup.entries)
                          ps == ParseArray(backup.payments)
                      IN  /\ entries' = es
                          /\ payments' = ps
                          /\ effects' = AllEffects
                          /\ restore' = <<entries, payments, es, ps>>
                          /\ file' = IF picked = file THEN file ELSE NoFile
                 ELSE UNCHANGED <<entries, payments, effects, restore, file>>
     ELSE /\ alertMsg' = CsvNotice
          /\ UNCHANGED <<entries, payments, effects, restore, file>>
  /\ UNCHANGED <<phase, store, nextId>>
  /\ UNCHANGED insightVars

----------------------------------------------------------------------------
\* Tabular export (exportToCSV)

Comma == ","
DQuote == "\""
Newline == "\n"
StrInfinity == <<"I", "n", "f", "i", "n", "i", "t", "y">>
Digits == <<"0", "1", "2", "3", "4", "5", "6", "7", "8", "9">>

\* The decimal digits of a natural number ("0" for 0)
RECURSIVE NatDigits(_)
NatDigits(n) ==
  IF n < 10 THEN <<Digits[n + 1]>> ELSE NatDigits(n \div 10) \o <<Digits[(n % 10) + 1]>>

\* The decimal digits of the fraction r / den, den a power of ten, without
\* trailing zeros
RECURSIVE FracDigits(_, _)
FracDigits(r, den) ==
  IF r = 0 THEN <<>>
  ELSE <<Digits[((10 * r) \div den) + 1]>> \o FracDigits((10 * r) % den, den)

\* What Array.prototype.join writes for a number element counted in units of
\* 1/den: String(x), and the empty string for null
NumberText(v, den) ==
  CASE v[1] = "num" ->
         LET a == Abs(v[2])
             frac == FracDigits(a % den, den)
         IN  (IF v[2] < 0 THEN <<"-">> ELSE <<>>) \o NatDigits(a \div den)
               \o (IF frac = <<>> THEN <<>> ELSE <<".">> \o frac)
    [] v[1] = "negzero" -> <<"0">>
    [] v[1] = "inf" -> StrInfinity
    [] OTHER -> <<>>

\* parts.join(sep)
RECURSIVE Join(_, _)
Join(parts, sep) ==
  IF parts = <<>> THEN <<>>
  ELSE IF Len(parts) = 1 THEN parts[1]
       ELSE parts[1] \o <<sep>> \o Join(Tail(parts), sep)

\* A replace that leaves every character as it is
EscapeQuotesNone(s) == s

\* note.replace(/"/g, '""')
RECURSIVE EscapeQuotes(_)
EscapeQuotes(s) ==
  IF s = <<>> THEN <<>>
  ELSE (IF Head(s) = DQuote THEN <<DQuote, DQuote>> ELSE <<Head(s)>>)
         \o EscapeQuotes(Tail(s))

ProductionHeaders ==
  <<<<"D", "a", "t", "e">>,
     <<"R", "u", "n", "n", "i", "n", "g", " ", "D", "r", "u", "m">>,
     <<"O", "p", "e", "n", " ", "S", "t", "o", "c", "k", " ", "(", "g", ")">>,
     <<"P", "r", "o", "d", "u", "c", "t", "i", "o", "n", " ", "(", "c", "o", "n", "e", "s", ")">>,
     <<"C", "l", "o", "s", "i", "n", "g", " ", "S", "t", "o", "c", "k", " ", "(", "g", ")">>,
     <<"R", "a", "t", "e", " ", "p", "e", "r", " ", "K", "g">>,
     <<"W", "e", "i", "g", "h", "t", " ", "(", "k", "g", ")">>,
     <<"T", "o", "t", "a", "l", " ", "A", "m", "o", "u", "n", "t">>>>
PaymentHeaders == <<<<"D", "a", "t", "e">>, <<"A", "m", "o", "u", "n", "t">>, <<"N", "o", "t", "e">>>>

\* The line of one entry: eight unquoted fields
ProductionLine(e) ==
  Join(<<e.date, NumberText(e.runningDrum, 1), NumberText(e.openStockGrams, 1),
         NumberText(e.productionCones, 1), NumberText(e.closingStockGrams, 1),
         NumberText(e.ratePerKg, 1), NumberText(e.productionWeight, WeightDen),
         NumberText(e.totalAmount, MoneyDen)>>, Comma)

\* The line of one payment: date, amount and the quoted note
PaymentLine(p) ==
  Join(<<p.date, NumberText(p.amount, MoneyDen),
         <<DQuote>> \o EscapeQuotes(p.note) \o <<DQuote>>>>, Comma)

\* csvContent: the header line and one line per record, joined with "\n"
CsvContent(type, es, ps) ==
  IF type = "production"
  THEN Join(<<Join(ProductionHeaders, Comma)>>
              \o [i \in 1..Len(es) |-> ProductionLine(es[i])], Newline)
  ELSE Join(<<Join(PaymentHeaders, Comma)>>
              \o [i \in 1..Len(ps) |-> PaymentLine(ps[i])], Newline)

\* exportToCSV: the content goes to a downloaded .csv file
ExportToCSV(type) ==
  /\ Idle
  /\ file' = [ext |-> "csv", content |-> <<"csv", CsvContent(type, entries, payments)>>]
  /\ alertMsg' = NoAlert
  /\ UNCHANGED <<phase, entries, payments, store, effects, picked, nextId, restore>>
  /\ UNCHANGED insightVars

----------------------------------------------------------------------------
\* Insight request (handleAiAnalysis, analyzeProductionData)

AddSomeData == "Add some data to get AI insights."
NoInsightsGenerated == "No insights generated."
FailedToAnalyze == "Failed to analyze data with AI."
\* A non-empty response.text of the collaborator
ResponseText == "Production is steady."

\* data.slice(-10)
SliceCount == 10
SliceLast(s, n) == IF Len(s) <= n THEN s ELSE SubSeq(s, Len(s) - n + 1, Len(s))

\* The data written into the prompt: JSON.stringify(data.slice(-10))
PromptData(data) == StringifyArray(SliceLast(data, SliceCount))

\* How the awaited generateContent call may end: a response with a text, a
\* response with an empty text, a rejection
Outcomes == {"text", "empty", "reject"}

\* A catch clause that answers as for an empty response
InsightOfUncaught(outcome) ==
  IF outcome = "text" THEN ResponseText ELSE NoInsightsGenerated

\* What analyzeProductionData returns after the call: response.text ||
\* "No insights generated.", and the text of the catch clause on a rejection
InsightOf(outcome) ==
  CASE outcome = "text" -> ResponseText
    [] outcome = "empty" -> NoInsightsGenerated
    [] OTHER -> FailedToAnalyze

\* handleAiAnalysis up to its await, for the selected month key: the button is
\* enabled, setIsAnalyzing(true), and analyzeProductionData runs up to its own
\* await.  With no data it returns at once and the handler finishes; setUp
\* tells whether new GoogleGenAI(...) returns: when it throws, outside the
\* try block, the promise is rejected and the rest of handleAiAnalysis never
\* runs; otherwise the call is sent with the prompt.
HandleAiAnalysis(key, setUp) ==
  /\ Idle
  /\ ~isAnalyzing
  /\ Len(Filtered(entries, key)) # 0
  /\ LET data == Filtered(entries, key)
     IN  IF Len(data) = 0
         THEN /\ isAnalyzing' = FALSE
              /\ aiInsight' = AddSomeData
              /\ request' = NoRequest
         ELSE IF ~setUp
              THEN /\ isAnalyzing' = TRUE
                   /\ aiInsight' = aiInsight
                   /\ request' = NoRequest
              ELSE /\ isAnalyzing' = TRUE
                   /\ aiInsight' = aiInsight
                   /\ request' = [st |-> "pending", payload |-> PromptData(data)]
  /\ alertMsg' = NoAlert
  /\ UNCHANGED <<phase, entries, payments, store, effects, file, picked, nextId, restore>>

\* The call settles: analyzeProductionData returns its text and
\* handleAiAnalysis goes on with setAiInsight(insight), setIsAnalyzing(false).
SettleAnalysis(outcome) ==
  /\ phase = "running"
  /\ request.st = "pending"
  /\ aiInsight' = InsightOf(outcome)
  /\ isAnalyzing' = FALSE
  /\ request' = NoRequest
  /\ UNCHANGED <<phase, entries, payments, store, effects, file, picked, nextId, alertMsg,
                 restore>>

----------------------------------------------------------------------------
\* Specification

Next ==
  \/ Load
  \/ RunEffect
  \/ Reload
  \/ \E fd \in EntryInputs : HandleSubmit(fd)
  \/ \E pf \in PaymentInputs : HandlePaymentSubmit(pf)
  \/ \E id \in DeleteIds, ok \in BOOLEAN : DeleteEntry(id, ok)
  \/ \E id \in DeleteIds, ok \in BOOLEAN : DeletePayment(id, ok)
  \/ ExportFullBackup
  \/ \E i \in 1..Len(ForeignFiles) : HandleImportFile(ForeignFiles[i])
  \/ HandleImportFile(file)
  \/ \E ok \in BOOLEAN : ReaderOnload(ok)

Spec == Init /\ [][Next]_vars

\* The calculator on its own: one form draft out of a grid of integer
\* inputs, negative ones included, is submitted to an empty ledger.
CalcInputs ==
  [date : {Str2024_01_05},
   runningDrum : {-2, 0, 1, 5},
   openStockGrams : {-1, 3, 200, 1251},
   productionCones : {-1, 1, 10},
   closingStockGrams : {-3, 0, 100},
   ratePerKg : {-7, 1, 150}]

InitCalc == Init /\ store = InitialStores[1]

NextCalc ==
  \/ Load
  \/ RunEffect
  \/ \E fd \in CalcInputs : entries = <<>> /\ HandleSubmit(fd)

SpecCalc == InitCalc /\ [][NextCalc]_vars

\* The tabular export on its own: payments whose notes range over the strings
\* of at most two characters out of a letter, the quote and the comma are
\* recorded, and either table is exported.
NoteChars == {"a", DQuote, Comma}
NoteInputs == {<<>>} \cup {<<c>> : c \in NoteChars} \cup {<<c, d>> : c, d \in NoteChars}
CsvPaymentInputs ==
  [date : {Str2024_02_10}, amount : {1}, note : NoteInputs]
    \cup {[date |-> Str2024_01_05, amount |-> 2000, note |-> <<>>]}

InitCsv == Init /\ store = InitialStores[4]

NextCsv ==
  \/ Load
  \/ RunEffect
  \/ \E pf \in CsvPaymentInputs : HandlePaymentSubmit(pf)
  \/ \E type \in {"production", "payments"} : ExportToCSV(type)

SpecCsv == InitCsv /\ [][NextCsv]_vars

\* The insight request next to the ledger operations, on a ledger that
\* earlier runs left in the store: StoredRecords entries, the newest first,
\* all of January 2024 but the newest.
StoredRecords == 12
StoredEntry(i) ==
  [ForeignB EXCEPT !.id = 200 + i,
                   !.date = IF i = 1 THEN Str2024_02_10 ELSE Str2024_01_05]
StoredLedger == [i \in 1..StoredRecords |-> StoredEntry(i)]

InitInsight ==
  InitWith([production_entries |-> JsonText(<<"arr", StoredLedger>>),
            production_payments |-> JsonText(<<"arr", <<>>>>)])

InsightDeleteIds == {1, 201, 200 + StoredRecords}

NextInsight ==
  \/ Load
  \/ RunEffect
  \/ \E fd \in EntryInputs : HandleSubmit(fd)
  \/ \E pf \in PaymentInputs : HandlePaymentSubmit(pf)
  \/ \E id \in InsightDeleteIds, ok \in BOOLEAN : DeleteEntry(id, ok)
  \/ \E key \in PeriodKeys, setUp \in BOOLEAN : HandleAiAnalysis(key, setUp)
  \/ \E outcome \in Outcomes : SettleAnalysis(outcome)

SpecInsight == InitInsight /\ [][NextInsight]_vars

\* A call that is in flight settles sooner or later.
SpecInsightLive ==
  SpecInsight /\ WF_vars(\E outcome \in Outcomes : SettleAnalysis(outcome))


----------------------------------------------------------------------------
\* Helpers of the properties

\* The indices of s whose record has another id than id, and the j-th of them
KeptIdx(s, id) == {i \in 1..Len(s) : s[i].id # id}
NthOf(S, j) == CHOOSE i \in S : Cardinality({k \in S : k < i}) = j - 1

\* t is s without the records whose index is not in K, in the same order
IsRestriction(t, s, K) ==
  /\ Len(t) = Cardinality(K)
  /\ \A j \in 1..Len(t) : t[j] = s[NthOf(K, j)]

HasId(s, id) == \E i \in 1..Len(s) : s[i].id = id

----------------------------------------------------------------------------
\* C1

\* C1 (as claimed): importing the backup that exportFullBackup wrote from the
\* current ledger, with the restore confirmed, leaves entries and payments
\* exactly as they were: same records, same order, same value of every field.
C1_RoundTripIdentity ==
  [][(ReaderOnload(TRUE) /\ picked = file
        /\ file.content = BackupText(entries, payments))
       => (entries' = entries /\ payments' = payments)]_vars

----------------------------------------------------------------------------
\* C2

\* C2 (as claimed): importing a .json document that cannot be parsed or that
\* lacks the entries or the payments container shows a failure to the user
\* and leaves entries and payments as they were.
C2_BadImportReported ==
  [][\A ok \in BOOLEAN :
       (/\ ReaderOnload(ok)
        /\ picked.ext = "json"
        /\ ImportOutcome(picked.content) # "restore")
       => (alertMsg' # NoAlert /\ entries' = entries /\ payments' = payments)]_vars

----------------------------------------------------------------------------
\* C3

\* C3 (as claimed): a confirmed delete with an absent id changes nothing, and
\* with a present id removes exactly one record of that collection and
\* leaves the others and their order unchanged.
C3_DeleteRemovesExactlyOne ==
  [][\A id \in DeleteIds :
       /\ DeleteEntry(id, TRUE) =>
            /\ payments' = payments
            /\ IF HasId(entries, id)
               THEN /\ Len(entries') = Len(entries) - 1
                    /\ \E i \in 1..Len(entries) :
                         /\ entries[i].id = id
                         /\ IsRestriction(entries', entries, (1..Len(entries)) \ {i})
               ELSE entries' = entries
       /\ DeletePayment(id, TRUE) =>
            /\ entries' = entries
            /\ IF HasId(payments, id)
               THEN /\ Len(payments') = Len(payments) - 1
                    /\ \E i \in 1..Len(payments) :
                         /\ payments[i].id = id
                         /\ IsRestriction(payments', payments, (1..Len(payments)) \ {i})
               ELSE payments' = payments]_vars

\* C3 (amended): a confirmed delete removes every record of that collection
\* whose id is the given one (none when the id is absent, exactly one when
\* the ids of the collection are distinct), keeps all other records in their
\* order and leaves the other collection unchanged.
C3_DeleteRemovesAllWithId ==
  [][\A id \in DeleteIds :
       /\ DeleteEntry(id, TRUE) =>
            /\ payments' = payments
            /\ IsRestriction(entries', entries, KeptIdx(entries, id))
       /\ DeletePayment(id, TRUE) =>
            /\ entries' = entries
            /\ IsRestriction(payments', payments, KeptIdx(payments, id))]_vars

\* C3 witness: a confirmed deleteEntry of the id that the two restored
\* entries share has just emptied the collection (the store still holds both).
C3_Witness ==
  /\ phase = "running"
  /\ effects = <<"production_entries">>
  /\ store.production_entries = JsonText(<<"arr", <<ForeignA, ForeignB>>>>)
  /\ entries = <<>>
  /\ nextId = 0

----------------------------------------------------------------------------
\* C4

\* C4: submitting a payment form whose amount is zero or negative changes
\* neither collection; submitting one whose amount is positive puts the new
\* payment in front of payments and leaves entries unchanged.
C4_PaymentAmountValidated ==
  [][\A pf \in PaymentInputs :
       HandlePaymentSubmit(pf) =>
         /\ entries' = entries
         /\ IF pf.amount > 0
            THEN /\ Len(payments') = Len(payments) + 1
                 /\ payments'[1].amount = Num(pf.amount)
                 /\ payments'[1].date = pf.date
                 /\ payments'[1].note = pf.note
                 /\ Tail(payments') = payments
            ELSE payments' = payments /\ store' = store /\ effects' = effects]_vars

\* C4 witness: an accepted payment has just been added in front of an
\* earlier one.
C4_Witness ==
  /\ phase = "running"
  /\ effects = <<"production_payments">>
  /\ Len(payments) = 2
  /\ Val(payments[1].amount) > 0
  /\ store.production_payments = JsonText(StringifyArray(Tail(payments)))

----------------------------------------------------------------------------
\* C5

\* e.totalAmount is e.productionWeight * e.ratePerKg rounded to 2 decimals:
\* all three are numbers and the amount, in hundredths, is a nearest integer
\* to weight (thousandths) * rate / 10.
IsNumber(v) == v[1] \in {"num", "negzero"}
AmountRounded(e) ==
  /\ IsNumber(e.totalAmount) /\ IsNumber(e.productionWeight) /\ IsNumber(e.ratePerKg)
  /\ Abs(10 * Val(e.totalAmount) - Val(e.productionWeight) * Val(e.ratePerKg)) <= 5
AllRounded(es) == \A i \in 1..Len(es) : AmountRounded(es[i])

\* The entries a text holds, once parsed (none when it does not parse to a
\* document with an array of entries)
StoredEntries(text) ==
  IF LoadKey(text)[1] = "ok" THEN LoadKey(text)[2] ELSE <<>>
BackupEntries(f) ==
  IF f.ext = "json" /\ ImportOutcome(f.content) = "restore"
  THEN ParseArray(f.content[2][2].entries) ELSE <<>>

\* C5 (as claimed): in every reachable state, restores included, every entry
\* has totalAmount = round(productionWeight * ratePerKg, 2).
C5_AmountInvariant == AllRounded(entries)

\* C5 (amended): handleSubmit creates entries with totalAmount =
\* round(productionWeight * ratePerKg, 2), and no operation breaks the
\* equation for the entries it keeps: when it holds for all entries, it holds
\* after every step, provided the document being restored or the store being
\* loaded holds only entries that satisfy it (restore and load validate nothing).
C5_AmountPreserved ==
  [][(/\ AllRounded(entries)
      /\ AllRounded(BackupEntries(picked))
      /\ (phase = "boot" => AllRounded(StoredEntries(store.production_entries))))
       => AllRounded(entries')]_vars

\* C5 witness: a backup with an entry whose amount was rounded up (1.247 to
\* 1.25) is being restored.
C5_Witness ==
  /\ phase = "running"
  /\ restore # NoRestore
  /\ Len(entries) >= 1
  /\ entries[1].productionWeight = Num(1247)
  /\ entries[1].totalAmount = Num(125)

----------------------------------------------------------------------------
\* C6

\* C6: for every form draft of integers, negative ones included, the entry
\* handleSubmit creates stores the weight (drum*(1250-open) + close*30 +
\* (cones-drum)*1250) / 1000 kg and the amount round(weight * rate, 2); the
\* draft (5, 200, 100, 10, rate 150) gives 14.5 kg and 2175.00.
C6_WeightAndAmount ==
  [][\A fd \in CalcInputs :
       HandleSubmit(fd) =>
         LET e == entries'[1]
             grams == fd.runningDrum * (1250 - fd.openStockGrams)
                        + fd.closingStockGrams * 30
                        + (fd.productionCones - fd.runningDrum) * 1250
         IN  /\ e.productionWeight = Num(grams)
             /\ IsNumber(e.totalAmount)
             /\ Abs(10 * Val(e.totalAmount) - grams * fd.ratePerKg) <= 5
             /\ (/\ fd.runningDrum = 5 /\ fd.openStockGrams = 200
                 /\ fd.closingStockGrams = 100 /\ fd.productionCones = 10
                 /\ fd.ratePerKg = 150)
                  => (e.productionWeight = Num(14500) /\ e.totalAmount = Num(217500))]_vars

\* C6 witness: the entry of the draft (5, 200, 100, 10, rate 150) is stored.
C6_Witness ==
  /\ Len(entries) = 1
  /\ entries[1].runningDrum = Num(5)
  /\ entries[1].openStockGrams = Num(200)
  /\ entries[1].ratePerKg = Num(150)
  /\ entries[1].productionWeight = Num(14500)
  /\ entries[1].totalAmount = Num(217500)

----------------------------------------------------------------------------
\* C7

----------------------------------------------------------------------------
\* C8

\* C8 (as claimed): start-up never fails; a key whose value is absent or not
\* parseable loads as the empty sequence, a stored array loads as that array.
C8_LoadNeverFails ==
  [][Load =>
       /\ phase' = "running"
       /\ (store.production_entries[1] \in {"absent", "garbage"} => entries' = <<>>)
       /\ (store.production_payments[1] \in {"absent", "garbage"} => payments' = <<>>)
       /\ (store.production_entries[1] = "json" /\ store.production_entries[2][1] = "arr"
             => entries' = ParseArray(store.production_entries[2]))
       /\ (store.production_payments[1] = "json" /\ store.production_payments[2][1] = "arr"
             => payments' = ParseArray(store.production_payments[2]))]_vars

----------------------------------------------------------------------------
\* C9

\* What a collection reads as after it has been persisted and loaded again
Reloaded(s) == ParseArray(StringifyArray(s))

\* C9 (as claimed, its in-memory half): from a confirmed restore until it is
\* fully persisted, also across a stop and reload of the process, the running
\* program holds either both pre-restore collections or both collections of
\* the backup, never one of each.
C9_RestoreJoint ==
  (phase = "running" /\ restore # NoRestore) =>
    \/ (entries = restore[1] /\ payments = restore[2])
    \/ (entries = Reloaded(restore[1]) /\ payments = Reloaded(restore[2]))
    \/ (entries = restore[3] /\ payments = restore[4])
    \/ (entries = Reloaded(restore[3]) /\ payments = Reloaded(restore[4]))

----------------------------------------------------------------------------
\* C10

\* The indices of the records of s whose date begins with the characters of key
DateMatches(s, key) ==
  {i \in 1..Len(s) :
     /\ Len(s[i].date) >= Len(key)
     /\ \A k \in 1..Len(key) : s[i].date[k] = key[k]}

\* C10: with the key "all" the period filter returns the sequence itself;
\* with a YYYY-MM key it returns exactly the records whose date starts with
\* the key, in their order in the input.
C10_PeriodFilter ==
  \A key \in PeriodKeys :
    /\ IF key = StrAll
       THEN Filtered(entries, key) = entries
       ELSE IsRestriction(Filtered(entries, key), entries, DateMatches(entries, key))
    /\ IF key = StrAll
       THEN Filtered(payments, key) = payments
       ELSE IsRestriction(Filtered(payments, key), payments, DateMatches(payments, key))

\* C10 witness: of two entries and two payments, the filter of 2024-02 keeps
\* the second entry only and the first payment only.
C10_Witness ==
  /\ Len(entries) = 2
  /\ Len(payments) = 2
  /\ Filtered(entries, Key2024_02) = <<entries[2]>>
  /\ Filtered(payments, Key2024_02) = <<payments[1]>>
  /\ Filtered(entries, StrAll) = entries

----------------------------------------------------------------------------
\* C11

\* The records of s in the order p, a permutation of its indices
Permuted(s, p) == [i \in 1..Len(s) |-> s[p[i]]]

\* C11 (as claimed): for the filtered entries and payments of every period,
\* the four totals of stats (total weight, total value, total paid,
\* outstanding balance) do not depend on the order of the records: every
\* permutation of the filtered entries and of the filtered payments yields
\* the same four values.
C11_TotalsOrderIndependent ==
  phase = "running" =>
    \A key \in PeriodKeys :
      LET fe == Filtered(entries, key)
          fp == Filtered(payments, key)
          st == Stats(fe, fp)
      IN  \A p \in Permutations(1..Len(fe)), q \in Permutations(1..Len(fp)) :
            LET sp == Stats(Permuted(fe, p), Permuted(fp, q))
            IN  /\ sp.totalWeight = st.totalWeight
                /\ sp.totalValue = st.totalValue
                /\ sp.totalPaid = st.totalPaid
                /\ sp.outstandingBalance = st.outstandingBalance

----------------------------------------------------------------------------
\* C12

\* Reading delimited text by the standard rules: a field that starts with a
\* quote runs to the next quote that is not doubled, and a doubled quote in
\* it stands for one quote; any other field runs to the next comma or line
\* break.  Each reader returns what it read and the text after it.
RECURSIVE ReadQuoted(_)
ReadQuoted(t) ==
  IF t = <<>> THEN <<<<>>, <<>>>>
  ELSE IF Head(t) = DQuote
       THEN IF Len(t) >= 2 /\ t[2] = DQuote
            THEN LET r == ReadQuoted(Tail(Tail(t)))
                 IN  <<<<DQuote>> \o r[1], r[2]>>
            ELSE <<<<>>, Tail(t)>>
       ELSE LET r == ReadQuoted(Tail(t))
            IN  <<<<Head(t)>> \o r[1], r[2]>>

RECURSIVE ReadPlain(_)
ReadPlain(t) ==
  IF t = <<>> \/ Head(t) \in {Comma, Newline} THEN <<<<>>, t>>
  ELSE LET r == ReadPlain(Tail(t))
       IN  <<<<Head(t)>> \o r[1], r[2]>>

ReadField(t) ==
  IF t # <<>> /\ Head(t) = DQuote THEN ReadQuoted(Tail(t)) ELSE ReadPlain(t)

\* The fields of the first line of t, and the text after its line break
RECURSIVE ReadRecord(_)
ReadRecord(t) ==
  LET f == ReadField(t)
  IN  IF f[2] # <<>> /\ Head(f[2]) = Comma
      THEN LET r == ReadRecord(Tail(f[2]))
           IN  <<<<f[1]>> \o r[1], r[2]>>
      ELSE <<<<f[1]>>, IF f[2] = <<>> THEN <<>> ELSE Tail(f[2])>>

\* The lines of t, each as its sequence of fields
RECURSIVE ReadCsv(_)
ReadCsv(t) ==
  LET r == ReadRecord(t)
  IN  IF r[2] = <<>> THEN <<r[1]>> ELSE <<r[1]>> \o ReadCsv(r[2])

\* C12: the payments export writes, after the header line, one line
\* date,amount,"note with each quote doubled" per payment, and reading the
\* exported text by the standard delimited-text rules gives back, line by
\* line, the date, the amount as written and the original note, also for
\* notes that contain quotes or commas.
C12_NoteQuoting ==
  [][ExportToCSV("payments") =>
       LET text == file'.content[2]
           rows == ReadCsv(text)
       IN  /\ text = Join(<<Join(PaymentHeaders, Comma)>>
                            \o [i \in 1..Len(payments) |->
                                  payments[i].date \o <<Comma>>
                                    \o NumberText(payments[i].amount, MoneyDen)
                                    \o <<Comma, DQuote>>
                                    \o EscapeQuotes(payments[i].note)
                                    \o <<DQuote>>], Newline)
           /\ Len(rows) = Len(payments) + 1
           /\ rows[1] = PaymentHeaders
           /\ \A i \in 1..Len(payments) :
                /\ Len(rows[i + 1]) = 3
                /\ rows[i + 1][1] = payments[i].date
                /\ rows[i + 1][2] = NumberText(payments[i].amount, MoneyDen)
                /\ rows[i + 1][3] = payments[i].note]_vars

\* C12 witness: the payments table was exported with two payments, one note
\* holding a quote and a comma, and the text holds the doubled quote.
C12_Witness ==
  /\ file.ext = "csv"
  /\ Len(payments) = 2
  /\ file.content[2] = CsvContent("payments", entries, payments)
  /\ payments[1].note = <<DQuote, Comma>>
  /\ \E i \in 1..Len(file.content[2]) - 2 :
       SubSeq(file.content[2], i, i + 2) = <<DQuote, DQuote, Comma>>

----------------------------------------------------------------------------
\* C13

\* The first n records of s (all of them when it has fewer)
SliceFirst(s, n) == IF Len(s) <= n THEN s ELSE SubSeq(s, 1, n)

\* C13 (as claimed): the data handed to the insight collaborator is the 10
\* most recently inserted entries of the period-filtered entries, which with
\* the newest entry first are its first 10 (all of them when there are fewer
\* than 10).
C13_PayloadMostRecent ==
  [][\A key \in PeriodKeys :
       HandleAiAnalysis(key, TRUE) =>
         request'.payload = StringifyArray(SliceFirst(Filtered(entries, key), SliceCount))]_vars

----------------------------------------------------------------------------
\* C14

\* C14: when the call to the collaborator fails, the request ends with the
\* fixed text "Failed to analyze data with AI." stored as the insight and
\* isAnalyzing false; and no step of an insight request (its start, with or
\* without a call sent, and its end, whatever the outcome) changes entries,
\* payments or their persisted copies, whatever the ledger operations did to
\* them while the call was in flight.
C14_FailureFallsBack ==
  /\ [][SettleAnalysis("reject") =>
          /\ aiInsight' = FailedToAnalyze
          /\ isAnalyzing' = FALSE
          /\ phase' = "running"]_vars
  /\ [][((\E key \in PeriodKeys, setUp \in BOOLEAN : HandleAiAnalysis(key, setUp))
           \/ (\E outcome \in Outcomes : SettleAnalysis(outcome)))
          => UNCHANGED <<entries, payments, store, effects>>]_vars

\* C14 witness: a failed call has ended with the fallback text, on a ledger
\* that holds one entry more than the stored ones, persisted.
C14_Witness ==
  /\ aiInsight = FailedToAnalyze
  /\ ~isAnalyzing
  /\ request = NoRequest
  /\ Len(entries) = StoredRecords + 1
  /\ store.production_entries = JsonText(StringifyArray(entries))

----------------------------------------------------------------------------
\* C15

\* t is s with one record put in front of it
IsPrependOf(t, s) ==
  /\ Len(t) = Len(s) + 1
  /\ \A i \in 1..Len(s) : t[i + 1] = s[i]

\* C15: handleSubmit puts the new entry at the first index of entries, makes
\* entries one longer, keeps every earlier entry and their order, and leaves
\* payments as they are; an accepted handlePaymentSubmit does the same to
\* payments and leaves entries as they are; the date of the new record plays
\* no part.
C15_AddPrepends ==
  /\ [][\A fd \in EntryInputs :
          HandleSubmit(fd) =>
            /\ IsPrependOf(entries', entries)
            /\ entries'[1].date = fd.date
            /\ entries'[1].id = nextId'
            /\ payments' = payments]_vars
  /\ [][\A pf \in PaymentInputs :
          (HandlePaymentSubmit(pf) /\ pf.amount > 0) =>
            /\ IsPrependOf(payments', payments)
            /\ payments'[1].date = pf.date
            /\ payments'[1].id = nextId'
            /\ payments'[1].note = pf.note
            /\ entries' = entries]_vars

\* C15 witness: the entry just added is first although its date is earlier
\* than that of the entry behind it, and the payment added before it is still
\* the only payment.
C15_Witness ==
  /\ Len(entries) >= 2
  /\ effects = <<"production_entries">>
  /\ entries[1].id = nextId
  /\ entries[1].date = Str2024_01_05
  /\ entries[2].date = Str2024_02_10
  /\ Len(payments) = 1

----------------------------------------------------------------------------
\* C16

\* No two records of s share an id
DistinctIds(s) == \A i, j \in 1..Len(s) : s[i].id = s[j].id => i = j

\* C16 (as claimed): in every reachable state no two entries share an id and
\* no two payments share an id.
C16_IdsDistinct ==
  DistinctIds(entries) /\ DistinctIds(payments)

\* A step that takes the collections from a document: a confirmed restore, or
\* the load of the stored copies
TakesDocument ==
  \/ Load
  \/ (\E ok \in BOOLEAN : ReaderOnload(ok)) /\ entries' # entries
  \/ (\E ok \in BOOLEAN : ReaderOnload(ok)) /\ payments' # payments

\* C16 (amended): adding and deleting keep the ids of each collection
\* distinct: every step from a state with distinct ids leads to a state with
\* distinct ids, unless it takes the collections from a document (a restore or
\* the load at start-up); these take the records as the document has them,
\* and keep the ids distinct exactly when the document's ids are.
C16_IdsStayDistinct ==
  /\ [][(C16_IdsDistinct /\ ~TakesDocument) => C16_IdsDistinct']_vars
  /\ [][\A ok \in BOOLEAN :
          (ReaderOnload(ok) /\ restore' # NoRestore) =>
            /\ DistinctIds(entries') = DistinctIds(ParseArray(picked.content[2][2].entries))
            /\ DistinctIds(payments')
                 = DistinctIds(ParseArray(picked.content[2][2].payments))]_vars

\* C16 witness: entries holds a record of a document and two added ones, all
\* three ids distinct.
C16_Witness ==
  /\ Len(entries) = 3
  /\ DistinctIds(entries)
  /\ entries[3].id > MaxIds
  /\ entries[1].id = nextId
  /\ entries[2].id = nextId - 1

----------------------------------------------------------------------------
\* C17

\* C17 (as claimed): every insight request that was started completes: once
\* isAnalyzing is true it becomes false again with an insight text stored,
\* whatever the collaborator does, a failure while the client is set up
\* included.
C17_RequestCompletes ==
  isAnalyzing ~> (~isAnalyzing /\ aiInsight # NoInsight)

====
